---------------------------- MODULE Spec2Model ----------------------------
(***************************************************************************)
(* A model of split.h (namespace org::ppires): the three split overloads   *)
(* over std::basic_string_view (character, literal and regex separator)    *)
(* and basic_join.  One call runs at a time; every loop iteration of the   *)
(* C++ code is one action.  Positions are 0-based offsets into the source, *)
(* as in the code; size_t arithmetic is kept modulo SizeMod.               *)
(***************************************************************************)
EXTENDS Integers, Sequences, FiniteSets, TLC

(***************************************************************************)
(* Bounds of the model.                                                    *)
(***************************************************************************)
\* longest source handed to split
MaxLen == 5
\* longest literal separator handed to split, longest joiner handed to join
MaxSepLen == 2
\* largest max_fields argument
MaxFields == 4
\* longest sequence handed to join
MaxElems == 3
\* width (bits) of the model's size_t
SizeBits == 8
MaxThreads == 2

\* the characters sources, separators and joiners are made of
Chars == {"a", ","}
\* the elements a join input is made of
Elems == {<< >>, <<"a">>, <<",">>, <<"a", ",">>}
\* a joiner text that shares no character with Chars
Ampersand == <<"&">>
\* what a read one past the end of the source can give
Garbage == Chars \cup {"NUL"}

RECURSIVE Pow2(_)
Pow2(n) == IF n = 0 THEN 1 ELSE 2 * Pow2(n - 1)

SizeMod == Pow2(SizeBits)
\* std::basic_string_view::npos, numeric_limits<size_t>::max()
npos == SizeMod - 1

\* size_t addition and subtraction
Add(x, y) == (x + y) % SizeMod
Sub(x, y) == (x - y + SizeMod) % SizeMod

MinOf(S) == CHOOSE x \in S : \A y \in S : x <= y

\* all texts over Chars of length at most n
Texts(n) == UNION {[1..k -> Chars] : k \in 0..n}

(***************************************************************************)
(* The standard-library calls the code makes.                              *)
(***************************************************************************)
\* str.find(sep, a) for a character sep
FindChar(s, c, pos) ==
    LET hits == {i \in pos..(Len(s) - 1) : s[i + 1] = c}
    IN  IF hits = {} THEN npos ELSE MinOf(hits)

\* str.find(sep, a) for a string_view sep (an empty sep is found at pos)
FindStr(s, t, pos) ==
    LET hits == {i \in pos..(Len(s) - Len(t)) : SubSeq(s, i + 1, i + Len(t)) = t}
    IN  IF hits = {} THEN npos ELSE MinOf(hits)

\* variant: the field starts one character late
StringFromMutPos(s, pos, n) ==
    SubSeq(s, pos + 2, pos + (IF n < Len(s) - pos THEN n ELSE Len(s) - pos))

\* basic_string(str, pos, n, alloc): the characters of str.substr(pos, n);
\* the count is clipped to what is left of str (pos <= str_len on every
\* path of the loops, so substr never throws out_of_range)
StringFrom(s, pos, n) ==
    SubSeq(s, pos + 1, pos + (IF n < Len(s) - pos THEN n ELSE Len(s) - pos))

\* basic_string(a, b, alloc) over two iterators of the source
StringRange(s, from, to) == SubSeq(s, from + 1, to)

(***************************************************************************)
(* Patterns.  A compiled std::basic_regex is one of                        *)
(*   [kind |-> "char", c]   the one character c                            *)
(*   [kind |-> "plus", c]   c+                                             *)
(*   [kind |-> "star", c]   c*   (matches the empty text too)              *)
(*   [kind |-> "eol",  c]   $    (matches the empty text at the end)       *)
(***************************************************************************)
Patterns ==
    [kind : {"char", "plus", "star"}, c : Chars] \cup {[kind |-> "eol", c |-> "a"]}

NoPattern == [kind |-> "none", c |-> "a"]

\* length of the run of c in s that starts at offset p
RECURSIVE RunLen(_, _, _)
RunLen(s, c, p) ==
    IF p < Len(s) /\ s[p + 1] = c THEN 1 + RunLen(s, c, p + 1) ELSE 0

\* length of the match of re that starts at offset p of s, or -1
MatchAt(re, s, p) ==
    CASE re.kind = "char" -> IF p < Len(s) /\ s[p + 1] = re.c THEN 1 ELSE -1
      [] re.kind = "plus" -> IF RunLen(s, re.c, p) > 0 THEN RunLen(s, re.c, p) ELSE -1
      [] re.kind = "star" -> RunLen(s, re.c, p)
      [] re.kind = "eol"  -> IF p = Len(s) THEN 0 ELSE -1
      [] OTHER            -> -1

\* regex_search(a, str.end(), sep, sep_re) on the text s = [a, end): the
\* leftmost match; position and length are sep.position(0), sep.length(0)
regex_search(s, re) ==
    LET hits == {p \in 0..Len(s) : MatchAt(re, s, p) >= 0}
    IN  IF hits = {}
        THEN [found |-> FALSE, position |-> 0, length |-> 0]
        ELSE [found |-> TRUE, position |-> MinOf(hits),
              length |-> MatchAt(re, s, MinOf(hits))]

(***************************************************************************)
(* State.                                                                  *)
(***************************************************************************)
VARIABLES
    pc,             \* where the running call is
    op,             \* which function was called
    str,            \* split: the source
    sep,            \* split: the character (a text of length 1), or the literal
    sep_re,         \* split: the pattern separator
    fields_arg,     \* split: max_fields as the caller passed it
    max_fields,     \* split: the parameter, decremented by the code
    result,         \* split: the vector being built
    a,              \* split: the scan position
    b,              \* split: the cut position
    trailing_empty, \* split: buffered empty fields (unbounded mode)
    cont,           \* join: the input sequence
    joiner,         \* join: the ordinary joiner
    last_joiner,    \* join: the last joiner
    single,         \* join: TRUE when a single-joiner overload was called
    first,          \* join: iterator first, as an index into cont
    second,         \* join: iterator second
    output,         \* join: the ostringstream's text
    log,            \* join: what was written, piece by piece
    chain,          \* "" or the composition the caller is running
    earlier,        \* the results of the earlier calls of the running composition
    tpc,            \* default split: where each thread is in its call
    static_sep_re,  \* default split: the static unique_ptr sep_re; 0 is null
    alive,          \* default split: the pattern objects constructed and not deleted
    made,           \* default split: how many pattern objects were constructed
    mine,           \* default split: per thread, the pointer it holds in a local
    held            \* default split: per thread, the object `*sep_re` gave it

splitVars == <<str, sep, sep_re, fields_arg, max_fields, result, a, b, trailing_empty>>
joinVars == <<cont, joiner, last_joiner, single, first, second, output, log>>
cacheVars == <<tpc, static_sep_re, alive, made, mine, held>>
vars == <<pc, op, splitVars, joinVars, chain, earlier, cacheVars>>

\* the threads that call the default-separator split
Threads == 1..MaxThreads

\* the cache variables of a state in which no default split was called
CacheIdle ==
    /\ tpc = [t \in Threads |-> "none"]
    /\ static_sep_re = 0 /\ alive = {} /\ made = 0
    /\ mine = [t \in Threads |-> 0]
    /\ held = [t \in Threads |-> 0]

str_len == Len(str)

\* the join variables of a state in which no join was called
JoinIdle ==
    /\ cont = << >> /\ joiner = << >> /\ last_joiner = << >> /\ single = FALSE
    /\ first = 1 /\ second = 1 /\ output = << >> /\ log = << >>

\* the split variables of a state in which no split was called
SplitIdle ==
    /\ str = << >> /\ sep = << >> /\ sep_re = NoPattern /\ fields_arg = 0
    /\ max_fields = 0 /\ result = << >> /\ a = 0 /\ b = 0 /\ trailing_empty = 0

\* a call of split(str, sep, max_fields) is about to run
InitSplit ==
    /\ pc = "call"
    /\ chain = ""
    /\ str \in Texts(MaxLen)
    /\ fields_arg \in 0..MaxFields
    /\ max_fields = fields_arg
    /\ \/ op = "split_char" /\ sep \in {<<c>> : c \in Chars} /\ sep_re = NoPattern
       \/ op = "split_literal" /\ sep \in Texts(MaxSepLen) /\ sep_re = NoPattern
       \/ op = "split_regex" /\ sep = << >> /\ sep_re \in Patterns
    /\ result = << >> /\ a = 0 /\ b = 0 /\ trailing_empty = 0
    /\ earlier = << >>
    /\ JoinIdle
    /\ CacheIdle

\* a call of join(cont, joiner, last_joiner) or join(cont, joiner) is about to run
InitJoin ==
    /\ pc = "call"
    /\ chain = ""
    /\ op = "join"
    /\ cont \in UNION {[1..n -> Elems] : n \in 0..MaxElems}
    /\ joiner \in Texts(MaxSepLen)
    /\ \/ single = TRUE /\ last_joiner = << >>
       \/ single = FALSE /\ last_joiner \in {joiner, Ampersand, << >>}
    /\ first = 1 /\ second = 1 /\ output = << >> /\ log = << >>
    /\ earlier = << >>
    /\ SplitIdle
    /\ CacheIdle

Init == InitSplit \/ InitJoin

(***************************************************************************)
(* split: entry of the three overloads.                                    *)
(***************************************************************************)
\* variant: the loops are entered for the empty source too
HasTextMutAlways(len) == TRUE

\* `if(str_len)`
HasText(len) == len # 0

\* result is constructed empty; an empty source returns at once; otherwise
\* a=0 and `if(max_fields--)` picks the loop and decrements max_fields
SplitEnter ==
    /\ result' = << >>
    /\ b' = 0
    /\ IF HasText(str_len)
       THEN /\ a' = 0
            /\ max_fields' = Sub(max_fields, 1)
            /\ trailing_empty' = 0
            /\ pc' = IF max_fields # 0 THEN "bounded" ELSE "unbounded"
       ELSE /\ pc' = "done"
            /\ UNCHANGED <<max_fields, a, trailing_empty>>
    /\ UNCHANGED <<op, str, sep, sep_re, fields_arg, joinVars, chain, earlier, cacheVars>>

SplitCharCall == pc = "call" /\ op = "split_char" /\ SplitEnter

SplitLiteralCall == pc = "call" /\ op = "split_literal" /\ SplitEnter

SplitRegexCall == pc = "call" /\ op = "split_regex" /\ SplitEnter

(***************************************************************************)
(* split by a character.                                                   *)
(***************************************************************************)
\* variant: the bounded loops do not test the cut against npos
BoundedAgainMutNoNpos(cut, pos, len) == pos <= len

\* `while(b!=str.npos && a<=str_len)` of the bounded loops
BoundedAgain(cut, pos, len) == cut # npos /\ pos <= len

\* variant: the unbounded loops run once more at the end of the source
UnboundedAgainMutLe(cut, pos, len) == cut # npos /\ pos <= len

\* `while(b!=str.npos && a<str_len)` of the unbounded loops
UnboundedAgain(cut, pos, len) == cut # npos /\ pos < len

\* variant: the last field is taken one field late
LastFieldMutOff(size, limit) == size > limit

\* `result.size()>=max_fields? str.npos: ...` of the bounded loops
LastField(size, limit) == size >= limit

\* variant: the buffered empty fields are never written
FlushMutDrop(res, n) == res

\* `for(; trailing_empty; --trailing_empty) result.emplace_back();`
RECURSIVE Flush(_, _)
Flush(res, n) == IF n = 0 THEN res ELSE Flush(Append(res, << >>), n - 1)

\* one iteration of the bounded do-while
CharBoundedStep ==
    /\ pc = "bounded" /\ op = "split_char"
    /\ LET cut == IF LastField(Len(result), max_fields)
                  THEN npos ELSE FindChar(str, sep[1], a)
           nxt == Add(cut, 1)
       IN  /\ b' = cut
           /\ result' = Append(result, StringFrom(str, a, Sub(cut, a)))
           /\ a' = nxt
           /\ pc' = IF BoundedAgain(cut, nxt, str_len) THEN "bounded" ELSE "done"
    /\ UNCHANGED <<op, str, sep, sep_re, fields_arg, max_fields, trailing_empty,
                   joinVars, chain, earlier, cacheVars>>

\* the body of the unbounded loops once the cut is known
UnboundedBody(cut) ==
    IF cut = a
    THEN /\ trailing_empty' = trailing_empty + 1
         /\ result' = result
    ELSE /\ trailing_empty' = 0
         /\ result' = Append(Flush(result, trailing_empty),
                             StringFrom(str, a, Sub(cut, a)))

\* one iteration of the unbounded do-while
CharUnboundedStep ==
    /\ pc = "unbounded" /\ op = "split_char"
    /\ LET cut == FindChar(str, sep[1], a)
           nxt == Add(cut, 1)
       IN  /\ b' = cut
           /\ UnboundedBody(cut)
           /\ a' = nxt
           /\ pc' = IF UnboundedAgain(cut, nxt, str_len) THEN "unbounded" ELSE "done"
    /\ UNCHANGED <<op, str, sep, sep_re, fields_arg, max_fields, joinVars, chain, earlier, cacheVars>>

(***************************************************************************)
(* split by a literal.                                                     *)
(***************************************************************************)
\* `const size_t empty_sep=!sep_len;`
empty_sep(t) == IF Len(t) = 0 THEN 1 ELSE 0

\* `str.find(sep, a)+empty_sep`
LiteralCut(s, t, pos) == Add(FindStr(s, t, pos), empty_sep(t))

LiteralBoundedStep ==
    /\ pc = "bounded" /\ op = "split_literal"
    /\ LET cut == IF LastField(Len(result), max_fields)
                  THEN npos ELSE LiteralCut(str, sep, a)
           nxt == Add(cut, Len(sep))
       IN  /\ b' = cut
           /\ result' = Append(result, StringFrom(str, a, Sub(cut, a)))
           /\ a' = nxt
           /\ pc' = IF BoundedAgain(cut, nxt, str_len) THEN "bounded" ELSE "done"
    /\ UNCHANGED <<op, str, sep, sep_re, fields_arg, max_fields, trailing_empty,
                   joinVars, chain, earlier, cacheVars>>

LiteralUnboundedStep ==
    /\ pc = "unbounded" /\ op = "split_literal"
    /\ LET cut == LiteralCut(str, sep, a)
           nxt == Add(cut, Len(sep))
       IN  /\ b' = cut
           /\ UnboundedBody(cut)
           /\ a' = nxt
           /\ pc' = IF UnboundedAgain(cut, nxt, str_len) THEN "unbounded" ELSE "done"
    /\ UNCHANGED <<op, str, sep, sep_re, fields_arg, max_fields, joinVars, chain, earlier, cacheVars>>

(***************************************************************************)
(* split by a pattern.  a and b are iterators, kept as offsets from        *)
(* str.begin(); str.end() is the offset str_len.                           *)
(***************************************************************************)
\* how a call ends that ran into undefined behaviour and returns nothing:
\* an exception (basic_string::_M_create), a fault, or a scan that runs away
Abnormal == {"threw", "crashed", "hung"}

\* `b=a+sep.position(0)+!sep_len`
RegexCut(pos, m) == pos + m.position + (IF m.length = 0 THEN 1 ELSE 0)

\* regex_search(a, str.end(), sep, sep_re) at the scan position
SearchFrom(pos) == regex_search(SubSeq(str, pos + 1, str_len), sep_re)

\* one iteration of the bounded do-while.  A cut beyond str.end() (a
\* zero-width match at the end of the input) makes emplace_back(a, b) read
\* one character past the source: the read faults or gives some character,
\* and the scan goes on from beyond the end.  An iteration that starts
\* beyond the end has no defined behaviour and returns nothing.
RegexBoundedStep ==
    /\ pc = "bounded" /\ op = "split_regex"
    /\ IF a > str_len
       THEN /\ pc' \in Abnormal
            /\ UNCHANGED <<result, a, b>>
       ELSE LET m == SearchFrom(a)
                hit == Len(result) < max_fields /\ m.found
                cut == IF hit THEN RegexCut(a, m) ELSE str_len
                nxt == cut + (IF hit THEN m.length ELSE 0)
            IN  /\ b' = cut
                /\ IF cut > str_len
                   THEN \/ /\ pc' = "crashed"
                           /\ UNCHANGED <<result, a>>
                        \/ /\ \E g \in Garbage :
                                result' = Append(result, StringRange(str, a, str_len) \o <<g>>)
                           /\ a' = nxt
                           /\ pc' = "bounded"
                   ELSE /\ result' = Append(result, StringRange(str, a, cut))
                        /\ a' = nxt
                        /\ pc' = IF nxt # str_len THEN "bounded" ELSE "tail"
    /\ UNCHANGED <<op, str, sep, sep_re, fields_arg, max_fields, trailing_empty,
                   joinVars, chain, earlier, cacheVars>>

\* `if(b!=str.cend() && result.size()<max_fields) result.emplace_back(alloc_ch);`
RegexBoundedTail ==
    /\ pc = "tail" /\ op = "split_regex"
    /\ result' = IF b # str_len /\ Len(result) < max_fields
                 THEN Append(result, << >>) ELSE result
    /\ pc' = "done"
    /\ UNCHANGED <<op, str, sep, sep_re, fields_arg, max_fields, a, b, trailing_empty,
                   joinVars, chain, earlier, cacheVars>>

\* one iteration of the unbounded do-while
RegexUnboundedStep ==
    /\ pc = "unbounded" /\ op = "split_regex"
    /\ IF a > str_len
       THEN /\ pc' \in Abnormal
            /\ UNCHANGED <<result, a, b, trailing_empty>>
       ELSE LET m == SearchFrom(a)
                cut == IF m.found THEN RegexCut(a, m) ELSE str_len
                nxt == cut + (IF m.found THEN m.length ELSE 0)
            IN  /\ b' = cut
                /\ IF cut > str_len
                   THEN \/ /\ pc' = "crashed"
                           /\ UNCHANGED <<result, a, trailing_empty>>
                        \/ /\ \E g \in Garbage :
                                result' = Append(Flush(result, trailing_empty),
                                                 StringRange(str, a, str_len) \o <<g>>)
                           /\ trailing_empty' = 0
                           /\ a' = nxt
                           /\ pc' = "unbounded"
                   ELSE /\ IF cut = a
                           THEN /\ trailing_empty' = trailing_empty + 1
                                /\ result' = result
                           ELSE /\ trailing_empty' = 0
                                /\ result' = Append(Flush(result, trailing_empty),
                                                    StringRange(str, a, cut))
                        /\ a' = nxt
                        /\ pc' = IF nxt # str_len THEN "unbounded" ELSE "done"
    /\ UNCHANGED <<op, str, sep, sep_re, fields_arg, max_fields, joinVars, chain, earlier, cacheVars>>

(***************************************************************************)
(* join.  first, second and last are iterators over cont, kept as indices  *)
(* 1..Len(cont)+1.                                                         *)
(***************************************************************************)
last == Len(cont) + 1

\* `output << x` for a text (a string, a string_view, a character): the
\* characters of x are appended to the stream
Put(out, x) == out \o x

\* the record of one `<<`: which piece, the iterator position it was read
\* through, and the furthest position an iterator (first, or its copy second)
\* had been advanced to when it was read; joiners are read through no iterator
Piece(what, at, far) == [piece |-> what, at |-> at, far |-> far]

\* variant: the element is written before its joiner
PutPairMutSwap(out, j, e) == Put(Put(out, e), j)

\* `output << joiner << *first++` and `output << last_joiner << *first`
PutPair(out, j, e) == Put(Put(out, j), e)

\* variant: the loop stops one element early
LoopRunsMutEarly(snd, lst) == snd + 1 # lst

\* which joiner the iteration writes: `while(++second!=last)` writes joiner,
\* the statement after the loop writes last_joiner
LoopRuns(snd, lst) == snd # lst

\* the single-joiner overloads pass joiner for last_joiner
LastJoinerOf(one, j, l) == IF one THEN j ELSE l

\* the join overloads and basic_join down to `auto second=first;`
JoinCall ==
    /\ pc = "call" /\ op = "join"
    /\ last_joiner' = LastJoinerOf(single, joiner, last_joiner)
    /\ IF first # last
       THEN /\ output' = Put(<< >>, cont[first])
            /\ log' = <<Piece("elem", first, first)>>
            /\ first' = first + 1
            /\ second' = first + 1
            /\ pc' = IF first + 1 # last THEN "join_loop" ELSE "done"
       ELSE /\ output' = << >>
            /\ log' = << >>
            /\ pc' = "done"
            /\ UNCHANGED <<first, second>>
    /\ UNCHANGED <<op, splitVars, cont, joiner, single, chain, earlier, cacheVars>>

\* `while(++second!=last) output << joiner << *first++;` one iteration, or
\* the exit of the loop with `output << last_joiner << *first;`
JoinStep ==
    /\ pc = "join_loop" /\ op = "join"
    /\ second' = second + 1
    /\ IF LoopRuns(second + 1, last)
       THEN /\ output' = PutPair(output, joiner, cont[first])
            /\ log' = log \o <<Piece("joiner", 0, 0), Piece("elem", first, second + 1)>>
            /\ first' = first + 1
            /\ pc' = "join_loop"
       ELSE /\ output' = PutPair(output, last_joiner, cont[first])
            /\ log' = log \o <<Piece("last_joiner", 0, 0), Piece("elem", first, second + 1)>>
            /\ first' = first
            /\ pc' = "done"
    /\ UNCHANGED <<op, splitVars, cont, joiner, last_joiner, single, chain, earlier, cacheVars>>

(***************************************************************************)
(* The caller composing the two: join(split(s, sep, 0), sep) and           *)
(* split(join(seq, sep), sep, 0).                                          *)
(***************************************************************************)
JoinTheFields ==
    /\ pc = "done" /\ chain = ""
    /\ op \in {"split_char", "split_literal"} /\ fields_arg = 0
    /\ pc' = "call"
    /\ op' = "join"
    /\ chain' = "split_join"
    /\ cont' = result
    /\ joiner' = sep
    /\ single' = TRUE
    /\ UNCHANGED <<splitVars, last_joiner, first, second, output, log, earlier, cacheVars>>

SplitTheJoined ==
    /\ pc = "done" /\ chain = ""
    /\ op = "join" /\ single
    /\ pc' = "call"
    /\ op' = "split_literal"
    /\ chain' = "join_split"
    /\ str' = output
    /\ sep' = joiner
    /\ UNCHANGED <<sep_re, fields_arg, max_fields, result, a, b, trailing_empty, joinVars,
                   earlier, cacheVars>>

(***************************************************************************)
(* The caller splitting the same source with the same max_fields three     *)
(* times: by the character c, by the literal "c", by the pattern c.        *)
(***************************************************************************)
\* std::basic_regex(string(1, c)) for a character that is no metacharacter:
\* the pattern that matches exactly c
PatternOf(c) == [kind |-> "char", c |-> c]

\* after split(str, c, n): split(str, string_view(&c, 1), n)
SameByLiteral ==
    /\ pc = "done" /\ chain = ""
    /\ op = "split_char"
    /\ pc' = "call"
    /\ op' = "split_literal"
    /\ chain' = "agree"
    /\ earlier' = <<result>>
    /\ max_fields' = fields_arg
    /\ UNCHANGED <<str, sep, sep_re, fields_arg, result, a, b, trailing_empty,
                   joinVars, cacheVars>>

\* after that: split(str, basic_regex(string(1, c)), n)
SameByPattern ==
    /\ pc = "done" /\ chain = "agree"
    /\ op = "split_literal"
    /\ pc' = "call"
    /\ op' = "split_regex"
    /\ sep_re' = PatternOf(sep[1])
    /\ earlier' = Append(earlier, result)
    /\ max_fields' = fields_arg
    /\ UNCHANGED <<str, sep, fields_arg, result, a, b, trailing_empty,
                   joinVars, chain, cacheVars>>

(***************************************************************************)
(* split(str, max_fields) with the default separator, generic overload:    *)
(* the pattern is compiled on first use into a function-local              *)
(* `static std::unique_ptr<std::basic_regex<char_t>> sep_re`.  Several     *)
(* threads call it; the code takes no lock, so the steps of the threads    *)
(* interleave statement by statement.  Pattern objects are numbered in the *)
(* order of their construction.                                            *)
(***************************************************************************)
\* the threads are about to make their first default split call
InitCache ==
    /\ pc = "none" /\ op = "split_default" /\ chain = "" /\ earlier = << >>
    /\ SplitIdle /\ JoinIdle
    /\ tpc = [t \in Threads |-> "test"]
    /\ static_sep_re = 0 /\ alive = {} /\ made = 0
    /\ mine = [t \in Threads |-> 0]
    /\ held = [t \in Threads |-> 0]

\* what the cache steps leave alone
NoCallRuns == UNCHANGED <<pc, op, splitVars, joinVars, chain, earlier>>

\* `if(!sep_re)`
IsNull(ptr) == ptr = 0

CacheTest(t) ==
    /\ tpc[t] = "test"
    /\ tpc' = [tpc EXCEPT ![t] = IF IsNull(static_sep_re) THEN "build" ELSE "deref"]
    /\ UNCHANGED <<static_sep_re, alive, made, mine, held>>
    /\ NoCallRuns

\* the conversion of "\\s+" and `new std::basic_regex<char_t>(sep_str)`
CacheBuild(t) ==
    /\ tpc[t] = "build"
    /\ made' = made + 1
    /\ alive' = alive \cup {made + 1}
    /\ mine' = [mine EXCEPT ![t] = made + 1]
    /\ tpc' = [tpc EXCEPT ![t] = "reset"]
    /\ UNCHANGED <<static_sep_re, held>>
    /\ NoCallRuns

\* `sep_re.reset(p)`: the new pointer is stored and the old one is kept
\* in a local to be deleted
CacheResetStore(t) ==
    /\ tpc[t] = "reset"
    /\ static_sep_re' = mine[t]
    /\ mine' = [mine EXCEPT ![t] = static_sep_re]
    /\ tpc' = [tpc EXCEPT ![t] = "delete"]
    /\ UNCHANGED <<alive, made, held>>
    /\ NoCallRuns

\* `sep_re.reset(p)`: the old object, if there was one, is deleted
CacheResetDelete(t) ==
    /\ tpc[t] = "delete"
    /\ alive' = alive \ {mine[t]}
    /\ mine' = [mine EXCEPT ![t] = 0]
    /\ tpc' = [tpc EXCEPT ![t] = "deref"]
    /\ UNCHANGED <<static_sep_re, made, held>>
    /\ NoCallRuns

\* `*sep_re`, the argument of the call of the pattern overload
CacheDeref(t) ==
    /\ tpc[t] = "deref"
    /\ held' = [held EXCEPT ![t] = static_sep_re]
    /\ tpc' = [tpc EXCEPT ![t] = "split"]
    /\ UNCHANGED <<static_sep_re, alive, made, mine>>
    /\ NoCallRuns

\* `return split(str, *sep_re, ...)`: the scan uses the object; the use of a
\* deleted object has no defined behaviour: it may go unnoticed or fault
CacheSplit(t) ==
    /\ tpc[t] = "split"
    /\ \/ tpc' = [tpc EXCEPT ![t] = "returned"]
       \/ /\ held[t] \notin alive
          /\ tpc' = [tpc EXCEPT ![t] = "crashed"]
    /\ UNCHANGED <<static_sep_re, alive, made, mine, held>>
    /\ NoCallRuns

(***************************************************************************)
(* Reference definitions the claims are stated with.  They work on the     *)
(* text that is left, not on positions.                                    *)
(***************************************************************************)
SplitOps == {"split_char", "split_literal", "split_regex"}

\* a call has ended, with or without a result
Terminal == {"done"} \cup Abnormal

\* a split call of the caller's own (not the second half of a composition)
SplitCallOf(kinds) == chain = "" /\ op \in kinds

\* the separator of the running split call, whatever its kind
TheSep == IF op = "split_regex" THEN sep_re ELSE sep

\* the leftmost occurrence of the separator x in the text s
Occurrence(kind, s, x) ==
    CASE kind = "split_char" ->
           LET at == {i \in 0..(Len(s) - 1) : s[i + 1] = x[1]}
           IN  [found |-> at # {},
                position |-> IF at # {} THEN MinOf(at) ELSE 0,
                length |-> 1]
      [] kind = "split_literal" ->
           LET at == {i \in 0..(Len(s) - Len(x)) : SubSeq(s, i + 1, i + Len(x)) = x}
           IN  [found |-> at # {},
                position |-> IF at # {} THEN MinOf(at) ELSE 0,
                length |-> Len(x)]
      [] OTHER -> regex_search(s, x)

\* the plain left-to-right split of s at every separator occurrence; an
\* occurrence of zero width cuts after one character
RECURSIVE PlainSplit(_, _, _)
PlainSplit(kind, s, x) ==
    LET o == Occurrence(kind, s, x)
        cut == o.position + (IF o.length = 0 THEN 1 ELSE 0)
    IN  IF ~o.found \/ cut > Len(s)
        THEN <<s>>
        ELSE <<SubSeq(s, 1, cut)>>
             \o PlainSplit(kind, SubSeq(s, cut + o.length + 1, Len(s)), x)

\* the plain split that stops cutting once k - 1 fields are cut
RECURSIVE PlainSplitN(_, _, _, _)
PlainSplitN(kind, s, x, k) ==
    LET o == Occurrence(kind, s, x)
        cut == o.position + (IF o.length = 0 THEN 1 ELSE 0)
    IN  IF k <= 1 \/ ~o.found \/ cut > Len(s)
        THEN <<s>>
        ELSE <<SubSeq(s, 1, cut)>>
             \o PlainSplitN(kind, SubSeq(s, cut + o.length + 1, Len(s)), x, k - 1)

\* fs without its maximal trailing run of empty fields
RECURSIVE DropTrailingEmpty(_)
DropTrailingEmpty(fs) ==
    IF fs # << >> /\ fs[Len(fs)] = << >>
    THEN DropTrailingEmpty(SubSeq(fs, 1, Len(fs) - 1))
    ELSE fs

\* the text x occurs in the text s
OccursIn(x, s) == \E i \in 0..(Len(s) - Len(x)) : SubSeq(s, i + 1, i + Len(x)) = x

\* the text s ends with the text x
EndsWith(s, x) == Len(x) <= Len(s) /\ SubSeq(s, Len(s) - Len(x) + 1, Len(s)) = x

(***************************************************************************)
(* Claims.                                                                 *)
(***************************************************************************)

\* C1: in unbounded mode, for every non-empty source and every character,
\* non-empty literal or pattern separator, the call returns exactly the plain
\* left-to-right split with the maximal trailing run of empty fields removed;
\* the last returned field is never empty.
C1_UnboundedIsPlainSplitWithoutTrailingEmpties ==
    ( /\ SplitCallOf(SplitOps)
      /\ fields_arg = 0
      /\ str # << >>
      /\ (op = "split_literal" => sep # << >>)
      /\ pc \in Terminal )
    => /\ pc = "done"
       /\ result = DropTrailingEmpty(PlainSplit(op, str, TheSep))
       /\ (result # << >> => result[Len(result)] # << >>)

\* C1 holds of the character and literal overloads and of every pattern whose
\* scan never meets a zero-width match at the end of the input.
C1_HoldsWithoutEndMatch ==
    ( /\ SplitCallOf(SplitOps)
      /\ fields_arg = 0
      /\ str # << >>
      /\ (op = "split_literal" => sep # << >>)
      /\ (op = "split_regex" => sep_re.kind # "eol")
      /\ pc \in Terminal )
    => /\ pc = "done"
       /\ result = DropTrailingEmpty(PlainSplit(op, str, TheSep))
       /\ (result # << >> => result[Len(result)] # << >>)

\* the fields of s cut at its first k - 1 separator occurrences; the empty
\* source has no field at all
FieldsUpTo(kind, s, x, k) == IF s = << >> THEN << >> ELSE PlainSplitN(kind, s, x, k)

\* C2: in bounded mode (max_fields = N > 0) with a character or non-empty
\* literal separator the call returns every field, empty ones included: the
\* first N - 1 fields are cut at the first N - 1 separator occurrences and
\* the next field is the rest of the source verbatim; with fewer than N - 1
\* occurrences the result is the full split, no field suppressed.
C2_BoundedIsPlainSplitN ==
    ( /\ SplitCallOf({"split_char", "split_literal"})
      /\ fields_arg > 0
      /\ sep # << >>
      /\ pc \in Terminal )
    => /\ pc = "done"
       /\ result = FieldsUpTo(op, str, sep, fields_arg)
       /\ (Len(PlainSplit(op, str, sep)) <= fields_arg
            => result = (IF str = << >> THEN << >> ELSE PlainSplit(op, str, sep)))

\* a bounded call returned max_fields fields, the last of which still holds
\* a separator occurrence, and an empty field before it
C2_Witness ==
    /\ SplitCallOf({"split_literal"}) /\ pc = "done"
    /\ fields_arg = 3 /\ Len(result) = 3
    /\ Len(sep) = 1 /\ OccursIn(sep, result[3])
    /\ result[2] = << >>

\* C3: for every source, separator strategy and max_fields = N > 0 the
\* result never holds more than N fields.
C3_AtMostMaxFields ==
    (op \in SplitOps /\ fields_arg > 0) => Len(result) <= fields_arg

\* a bounded pattern call returned exactly max_fields fields, cutting short
C3_Witness ==
    /\ SplitCallOf({"split_regex"}) /\ pc = "done"
    /\ fields_arg = 2 /\ Len(result) = 2
    /\ Len(PlainSplit(op, str, sep_re)) > 2

\* C5: for an empty source the call returns an empty sequence, whatever the
\* separator strategy and max_fields.
C5_EmptySourceGivesNoField ==
    (SplitCallOf(SplitOps) /\ str = << >> /\ pc # "call")
    => (pc = "done" /\ result = << >>)

\* a bounded pattern call on the empty source has returned
C5_Witness ==
    /\ SplitCallOf({"split_regex"}) /\ pc = "done"
    /\ str = << >> /\ fields_arg > 0 /\ sep_re.kind = "star"

\* C6: for every non-empty source and every separator strategy, max_fields
\* = 1 returns the one field that is the whole source.
C6_OneFieldIsWholeSource ==
    (SplitCallOf(SplitOps) /\ fields_arg = 1 /\ str # << >>)
    => /\ pc \in {"call", "bounded", "tail", "done"}
       /\ (pc \in {"call", "bounded"} => result = << >>)
       /\ (pc \in {"tail", "done"} => result = <<str>>)

\* a call with max_fields = 1 returned a source that holds two occurrences
C6_Witness ==
    /\ SplitCallOf({"split_char"}) /\ pc = "done"
    /\ fields_arg = 1 /\ result = <<str>>
    /\ Len(PlainSplit(op, str, sep)) >= 3

\* what join is to return: the elements in order, last joiner L before the
\* last of two or more elements, joiner J before every other but the first
RECURSIVE JoinRefFrom(_, _, _, _)
JoinRefFrom(seq, J, L, i) ==
    IF i > Len(seq) THEN << >>
    ELSE (IF i = 1 THEN << >> ELSE IF i = Len(seq) THEN L ELSE J)
         \o seq[i] \o JoinRefFrom(seq, J, L, i + 1)

JoinRef(seq, J, L) == JoinRefFrom(seq, J, L, 1)

\* how many pieces of one kind join wrote
Written(what) == Cardinality({i \in 1..Len(log) : log[i].piece = what})

\* C4: join of n elements returns the empty text for n = 0, text(e1) for
\* n = 1, and otherwise the elements in order with the last joiner written
\* exactly once, before the last element, and the joiner exactly n - 2 times;
\* the single-joiner overloads behave as last joiner = joiner.
C4_JoinShape ==
    (op = "join" /\ pc = "done")
    => LET n == Len(cont)
           L == IF single THEN joiner ELSE last_joiner
       IN  /\ output = JoinRef(cont, joiner, L)
           /\ Written("elem") = n
           /\ Written("last_joiner") = (IF n >= 2 THEN 1 ELSE 0)
           /\ Written("joiner") = (IF n >= 2 THEN n - 2 ELSE 0)

\* a join of three elements with two different, non-empty joiners returned
C4_Witness ==
    /\ op = "join" /\ chain = "" /\ pc = "done"
    /\ Len(cont) = 3 /\ ~single
    /\ last_joiner = Ampersand /\ Len(joiner) = 2

\* the fields fs with the separator x put back between consecutive fields
RECURSIVE Rejoin(_, _)
Rejoin(fs, x) ==
    IF fs = << >> THEN << >>
    ELSE IF Len(fs) = 1 THEN fs[1]
    ELSE fs[1] \o x \o Rejoin(Tail(fs), x)

\* the text p is a prefix of the text s
IsPrefix(p, s) == Len(p) <= Len(s) /\ SubSeq(s, 1, Len(p)) = p

\* C7 as stated: for character and literal separators, every source and
\* every max_fields, the fields with the separator re-inserted between them
\* are the source.
C7_RejoinIsSource_AnyMode ==
    (SplitCallOf({"split_char", "split_literal"}) /\ pc \in Terminal)
    => (pc = "done" /\ Rejoin(result, sep) = str)

\* C7, amended: they are the source for every bounded max_fields and, in
\* unbounded mode, for every source that does not end with a non-empty
\* separator; in unbounded mode in general they are a prefix of the source.
C7_RejoinIsSource ==
    (SplitCallOf({"split_char", "split_literal"}) /\ pc \in Terminal)
    => /\ pc = "done"
       /\ IF fields_arg > 0 \/ sep = << >> \/ ~EndsWith(str, sep)
          THEN Rejoin(result, sep) = str
          ELSE IsPrefix(Rejoin(result, sep), str)

\* an unbounded call returned the three fields, the middle one empty, of a
\* source that does not end with the separator
C7_Witness ==
    /\ SplitCallOf({"split_literal"}) /\ pc = "done"
    /\ fields_arg = 0 /\ Len(sep) = 1 /\ ~EndsWith(str, sep)
    /\ Len(result) = 3 /\ result[2] = << >>

\* C8: for every source s that does not end in the separator (character or
\* literal), the empty source included, join(split(s, sep, 0), sep) = s.
C8_JoinOfSplitIsSource ==
    (chain = "split_join" /\ pc \in Terminal /\ ~EndsWith(str, sep))
    => (pc = "done" /\ output = str)

\* join(split(s, sep, 0), sep) returned for a source of three fields, the
\* middle one empty
C8_Witness ==
    /\ chain = "split_join" /\ pc = "done" /\ ~EndsWith(str, sep)
    /\ Len(cont) = 3 /\ cont[2] = << >> /\ output = str

\* the joiner occurs inside no element
JoinerInNoElement == \A i \in 1..Len(cont) : ~OccursIn(joiner, cont[i])

\* no element ends with a non-empty proper prefix of the joiner
NoElementEndsIntoJoiner ==
    \A i \in 1..Len(cont) : \A k \in 1..(Len(joiner) - 1) :
        ~EndsWith(cont[i], SubSeq(joiner, 1, k))

\* C9 as stated: for every sequence of text elements and every non-empty
\* joiner that occurs inside no element, split(join(seq, sep), sep, 0) = seq.
C9_SplitOfJoinIsSequence_AnySequence ==
    (chain = "join_split" /\ pc \in Terminal /\ joiner # << >> /\ JoinerInNoElement)
    => (pc = "done" /\ result = cont)

\* C9, amended: the same for every sequence that is empty or ends with a
\* non-empty element, and every non-empty joiner that occurs inside no
\* element and has no non-empty proper prefix some element ends with.
C9_SplitOfJoinIsSequence ==
    ( /\ chain = "join_split" /\ pc \in Terminal
      /\ joiner # << >> /\ JoinerInNoElement /\ NoElementEndsIntoJoiner
      /\ (cont = << >> \/ cont[Len(cont)] # << >>) )
    => (pc = "done" /\ result = cont)

\* split(join(seq, sep), sep, 0) returned for three elements, the middle one
\* empty, and a two-character joiner
C9_Witness ==
    /\ chain = "join_split" /\ pc = "done"
    /\ JoinerInNoElement /\ NoElementEndsIntoJoiner
    /\ Len(cont) = 3 /\ cont[2] = << >> /\ cont[3] # << >> /\ Len(joiner) = 2
    /\ result = cont

\* the running call splits by the empty literal in unbounded mode
EmptyLiteralUnbounded == op = "split_literal" /\ sep = << >> /\ fields_arg = 0

\* C10: with the empty literal in unbounded mode a source of length n gives
\* n fields, the i-th being the i-th character; every iteration emits one
\* field and moves the scan on by one character, and the loop ends when the
\* scan reaches the end of the source.
C10_EmptyLiteralOneCharPerField ==
    /\ [](EmptyLiteralUnbounded =>
            /\ pc \in {"call", "unbounded", "done"}
            /\ a = Len(result) /\ a <= str_len
            /\ (pc = "unbounded" => a < str_len)
            /\ (pc = "done" => Len(result) = str_len)
            /\ \A i \in 1..Len(result) : result[i] = <<str[i]>>)
    /\ [][(EmptyLiteralUnbounded /\ pc = "unbounded") =>
            /\ a' = a + 1
            /\ result' = Append(result, <<str[a + 1]>>)
            /\ pc' = IF a' = str_len THEN "done" ELSE "unbounded"]_vars

\* the empty literal gave one field per character of a source of full length
C10_Witness ==
    /\ EmptyLiteralUnbounded /\ chain = "" /\ pc = "done"
    /\ str_len = MaxLen /\ Len(result) = MaxLen
    /\ \E i \in 1..str_len : str[i] # str[1]

\* the pattern overload is scanning or has ended, on a non-empty source
PatternSplitOfText == op = "split_regex" /\ str # << >> /\ pc # "call"

\* C11: the pattern split is total: for every non-empty source, every
\* max_fields and every pattern, zero-width matches at the end of the input
\* included, every cut position b and every scan position a stay within
\* length(source), and the scan ends with a result (never in an exception, a
\* fault or a runaway scan).
C11_PatternSplitIsTotal ==
    PatternSplitOfText =>
        /\ b <= str_len
        /\ a <= str_len
        /\ pc \notin Abnormal

\* what does hold of every pattern: each iteration moves the scan position
\* forward by at least one character
C11_ScanAdvances ==
    [][(PatternSplitOfText /\ pc \in {"bounded", "unbounded"} /\ pc' \notin Abnormal)
         => a' > a]_vars

\* C12: the default-whitespace pattern cache is initialized at most once per
\* process: when the threads make their first default split calls
\* concurrently, one pattern object is constructed and installed, and no
\* thread uses a pattern object that another thread has replaced or deleted.
C12_CacheInitializedOnce ==
    op = "split_default" =>
        /\ made <= 1
        /\ \A t \in Threads :
              /\ tpc[t] # "crashed"
              /\ tpc[t] = "split" => (held[t] \in alive /\ held[t] = static_sep_re)

\* the positions the elements were read through, in the order of the reads
ReadsOf(lg) == SelectSeq(lg, LAMBDA p : p.piece = "elem")

\* C13: join is a single pass that works on a sequence that can be iterated
\* only once: the elements are read exactly once each, in order, and no
\* element is read through an iterator position behind the furthest position
\* an iterator copy has already been advanced to.
C13_JoinIsSinglePass ==
    op = "join" =>
        /\ \A i \in 1..Len(ReadsOf(log)) : ReadsOf(log)[i].at = i
        /\ (pc = "done" => Len(ReadsOf(log)) = Len(cont))
        /\ \A i \in 1..Len(log) : log[i].at >= log[i].far

\* what does hold: every element is read exactly once, in order, and the
\* position read through is never more than one behind the copy `second`
C13_OneReadEachInOrder ==
    op = "join" =>
        /\ \A i \in 1..Len(ReadsOf(log)) : ReadsOf(log)[i].at = i
        /\ (pc = "done" => Len(ReadsOf(log)) = Len(cont))
        /\ \A i \in 1..Len(log) : log[i].at >= log[i].far - 1

\* the left-to-right scan of s ends on a separator occurrence of non-zero
\* width that reaches exactly to the end of s
RECURSIVE EndsOnOccurrence(_, _, _)
EndsOnOccurrence(kind, s, x) ==
    LET o == Occurrence(kind, s, x)
        cut == o.position + (IF o.length = 0 THEN 1 ELSE 0)
    IN  IF ~o.found \/ cut > Len(s)
        THEN FALSE
        ELSE IF cut + o.length >= Len(s)
             THEN o.length > 0
             ELSE EndsOnOccurrence(kind, SubSeq(s, cut + o.length + 1, Len(s)), x)

\* a bounded call has ended whose source ends on a separator occurrence that
\* the scan reaches with fewer than max_fields fields produced: the plain
\* split is those fields and one empty field after the last cut
LastCutAtEnd(kinds) ==
    /\ SplitCallOf(kinds)
    /\ fields_arg > 0
    /\ pc \in Terminal
    /\ EndsOnOccurrence(op, str, TheSep)
    /\ Len(PlainSplit(op, str, TheSep)) - 1 < fields_arg

\* C14: in bounded mode, for the character, literal and pattern separators,
\* when the last cut lands exactly at the end of the input (the source ends
\* with a separator occurrence) and fewer than max_fields fields have been
\* produced so far, exactly one more, empty, final field is appended: the
\* result is the fields cut so far followed by one empty field.
C14_FinalEmptyFieldAppended ==
    LastCutAtEnd(SplitOps) =>
        /\ pc = "done"
        /\ result = PlainSplit(op, str, TheSep)
        /\ result[Len(result)] = << >>

\* what does hold: the character and literal overloads append the field
\* whenever fewer than max_fields fields were produced; the pattern overload
\* appends it only when fewer than max_fields - 1 were, and returns the
\* fields without the empty one when exactly max_fields - 1 were
C14_FinalEmptyFieldByOverload ==
    LastCutAtEnd(SplitOps) =>
        LET full == PlainSplit(op, str, TheSep)
        IN  /\ pc = "done"
            /\ result = IF op = "split_regex" /\ Len(full) = fields_arg
                        THEN SubSeq(full, 1, Len(full) - 1)
                        ELSE full

\* C15: the three separator strategies agree: for every source, every
\* character c and every max_fields (0 and bounded), the split by the
\* character c, by the one-character literal c and by a pattern matching
\* exactly c return the same field sequence.
C15_StrategiesAgree ==
    /\ (chain = "agree" /\ op = "split_literal" /\ pc \in Terminal)
         => (pc = "done" /\ result = earlier[1])
    /\ (chain = "agree" /\ op = "split_regex" /\ pc \in Terminal)
         => (pc = "done" /\ earlier[2] = earlier[1] /\ result = earlier[1])

\* what does hold: the character and the literal overload always agree, and
\* the pattern overload agrees with them except where it leaves out the
\* final empty field of C14
C15_AgreeButForFinalEmptyField ==
    /\ (chain = "agree" /\ op = "split_literal" /\ pc \in Terminal)
         => (pc = "done" /\ result = earlier[1])
    /\ (chain = "agree" /\ op = "split_regex" /\ pc \in Terminal)
         => /\ pc = "done"
            /\ earlier[2] = earlier[1]
            /\ IF /\ fields_arg > 0
                  /\ EndsOnOccurrence("split_char", str, sep)
                  /\ Len(PlainSplit("split_char", str, sep)) = fields_arg
               THEN result = SubSeq(earlier[1], 1, fields_arg - 1)
               ELSE result = earlier[1]

\* a character or literal split is in one of its loops
IndexScan == op \in {"split_char", "split_literal"} /\ pc \in {"bounded", "unbounded"}

\* what `a=b+1` and `a=b+sep_len` add to the cut
SepWidth == IF op = "split_char" THEN 1 ELSE Len(sep)

\* the cut of the iteration comes from find, not from the field limit
CutIsSearched == pc = "unbounded" \/ ~LastField(Len(result), max_fields)

\* C16 as stated: the result has at most length(source) fields, whatever the
\* separator strategy and max_fields, and a scan that goes on to another
\* iteration has its position a = b + 1 (or b + sep_len) without wrap-around.
C16_AtMostLengthFields ==
    /\ (op \in SplitOps /\ pc = "done") => Len(result) <= str_len
    /\ (IndexScan /\ Len(result) + trailing_empty > 0) => a = b + SepWidth

\* C16, amended: the result has at most length(source) + 1 fields, at most
\* max_fields in bounded mode and at most length(source) in unbounded mode;
\* in the character and literal scans b - a never wraps (the cut is never before the scan position),
\* find(...) + empty_sep never wraps (the sum is the cut), and b + 1 or
\* b + sep_len wraps only when b = npos, on the path that leaves the loop:
\* an iteration that is followed by another one has a = b + width exactly.
C16_FieldsBoundedAndNoWrap ==
    /\ []((op \in SplitOps /\ pc = "done") =>
            /\ Len(result) <= str_len + 1
            /\ (fields_arg = 0 => Len(result) <= str_len)
            /\ (fields_arg > 0 => Len(result) <= fields_arg))
    /\ [][IndexScan =>
            /\ b' >= a
            /\ (op = "split_literal" /\ CutIsSearched)
                 => b' = FindStr(str, sep, a) + empty_sep(sep)
            /\ (pc' \in {"bounded", "unbounded"}) => a' = b' + SepWidth
            /\ (b' = npos) => pc' = "done"
            /\ (b' # npos) => a' = b' + SepWidth]_vars

\* a bounded call returned length(source) + 1 fields, and left its loop on
\* the path where b = npos and a = b + 1 wrapped
C16_Witness ==
    /\ SplitCallOf({"split_char", "split_literal"}) /\ pc = "done"
    /\ fields_arg > 0
    /\ str_len >= 2 /\ Len(result) = str_len + 1
    /\ b = npos /\ a = Add(npos, SepWidth) /\ a < SepWidth

Next ==
    \/ SplitCharCall
    \/ SplitLiteralCall
    \/ SplitRegexCall
    \/ CharBoundedStep
    \/ CharUnboundedStep
    \/ LiteralBoundedStep
    \/ LiteralUnboundedStep
    \/ RegexBoundedStep
    \/ RegexBoundedTail
    \/ RegexUnboundedStep
    \/ JoinCall
    \/ JoinStep
    \/ JoinTheFields
    \/ SplitTheJoined
    \/ SameByLiteral
    \/ SameByPattern

Spec == Init /\ [][Next]_vars

NextCache ==
    \/ \E t \in Threads : CacheTest(t)
    \/ \E t \in Threads : CacheBuild(t)
    \/ \E t \in Threads : CacheResetStore(t)
    \/ \E t \in Threads : CacheResetDelete(t)
    \/ \E t \in Threads : CacheDeref(t)
    \/ \E t \in Threads : CacheSplit(t)

SpecCache == InitCache /\ [][NextCache]_vars

=============================================================================
